---- MODULE Spec2Model ----
(***************************************************************************)
(* Task-Manager.py: the Task record, the TaskManager collection and its    *)
(* JSON-backed store.  Python values are modelled as follows: a str title  *)
(* is a sequence of characters; a timestamp str (datetime.isoformat) is a  *)
(* pair <<date, time>>; None in a timestamp field is the empty sequence;   *)
(* None as an id is NoId.  A dict is a function whose domain is its keys.  *)
(***************************************************************************)
EXTENDS Integers, Sequences, FiniteSets, TLC

\* ---- bounds of the model ----
MaxId == 2          \* add_task is offered while next_id <= MaxId
MaxTime == 1        \* the clock runs over 0..MaxTime
MaxTitleLen == 2    \* titles typed by the caller have at most this many characters
MaxFailures == 1    \* writes to the store that may fail in one run
TicksPerDay == 2    \* clock ticks per calendar day

VARIABLES tasks, next_id, store, now, last, returned, issued, failures, deleted

vars == <<tasks, next_id, store, now, last, returned, issued, failures, deleted>>

\* ---- Python values ----
None == <<>>
NoId == -1
Chars == {" ", "a"}
Whitespace == {" "}

RECURSIVE lstrip(_)
lstrip(s) == IF s # <<>> /\ Head(s) \in Whitespace THEN lstrip(Tail(s)) ELSE s

RECURSIVE rstrip(_)
rstrip(s) ==
    IF s # <<>> /\ s[Len(s)] \in Whitespace THEN rstrip(SubSeq(s, 1, Len(s) - 1)) ELSE s

\* strip that trims the left side only
strip_left_only(s) == lstrip(s)

\* str.strip()
strip(s) == rstrip(lstrip(s))

\* datetime.isoformat() and datetime.fromisoformat() on a clock reading
isoformat(t) == <<t \div TicksPerDay, t % TicksPerDay>>
fromisoformat(s) == s[1] * TicksPerDay + s[2]

\* dict.get(key, default)
Get(d, k, default) == IF k \in DOMAIN d THEN d[k] ELSE default

\* ---- Task ----
\* Task.__init__
\* Task.__init__ that keeps a created_at of None
Task_keeps_none(title, task_id, completed, created_at, completed_at, t) ==
    [id |-> task_id,
     title |-> title,
     completed |-> completed,
     created_at |-> created_at,
     completed_at |-> completed_at]

Task(title, task_id, completed, created_at, completed_at, t) ==
    [id |-> task_id,
     title |-> title,
     completed |-> completed,
     created_at |-> IF created_at # None THEN created_at ELSE isoformat(t),
     completed_at |-> completed_at]

\* complete stamping created_at as well
complete_stamps_created(task, t) ==
    [task EXCEPT !.completed = TRUE, !.completed_at = isoformat(t),
                 !.created_at = isoformat(t)]

\* Task.complete
complete(task, t) == [task EXCEPT !.completed = TRUE, !.completed_at = isoformat(t)]

\* uncomplete leaving the completion time in place
uncomplete_keeps_time(task) == [task EXCEPT !.completed = FALSE]

\* Task.uncomplete
uncomplete(task) == [task EXCEPT !.completed = FALSE, !.completed_at = None]

\* Task.to_dict
to_dict(task) ==
    [k \in {"id", "title", "completed", "created_at", "completed_at"} |->
        CASE k = "id" -> task.id
          [] k = "title" -> task.title
          [] k = "completed" -> task.completed
          [] k = "created_at" -> task.created_at
          [] k = "completed_at" -> task.completed_at]

\* from_dict that does not pass completed_at on
from_dict_forgets_completed_at(d, t) ==
    Task(d["title"], Get(d, "id", NoId), Get(d, "completed", FALSE),
         Get(d, "created_at", None), None, t)

\* from_dict that does not pass created_at on
from_dict_restamps(d, t) ==
    Task(d["title"], Get(d, "id", NoId), Get(d, "completed", FALSE),
         None, Get(d, "completed_at", None), t)

\* Task.from_dict: data["title"] raises KeyError when the record has no title
from_dict_raises(d) == "title" \notin DOMAIN d

\* Task.from_dict of a record that has a title
from_dict(d, t) ==
    Task(d["title"], Get(d, "id", NoId), Get(d, "completed", FALSE),
         Get(d, "created_at", None), Get(d, "completed_at", None), t)

\* ---- JSON text of the store ----
JNull == [t |-> "null"]
JInt(n) == [t |-> "int", v |-> n]
JStr(s) == [t |-> "str", v |-> s]
JBool(b) == [t |-> "bool", v |-> b]

\* json.dump of one value of a task dict, by key
dump_value(k, v) ==
    CASE k = "id" -> IF v = NoId THEN JNull ELSE JInt(v)
      [] k = "title" -> JStr(v)
      [] k = "completed" -> JBool(v)
      [] OTHER -> IF v = None THEN JNull ELSE JStr(v)

\* json.load of one value of a task dict, by key
load_value(k, j) ==
    CASE j.t = "null" -> (IF k = "id" THEN NoId ELSE None)
      [] OTHER -> j.v

dump_dict(d) == [k \in DOMAIN d |-> dump_value(k, d[k])]
load_dict(jd) == [k \in DOMAIN jd |-> load_value(k, jd[k])]

EmptyDict == [k \in {} |-> TRUE]

\* the states of the backing file
Absent == [kind |-> "absent", data |-> EmptyDict]
Unreadable == [kind |-> "unreadable", data |-> EmptyDict]
Garbage == [kind |-> "garbage", data |-> EmptyDict]
NonDict == [kind |-> "nondict", data |-> EmptyDict]

\* json.dump(data, file): data = {"next_id": ..., "tasks": [...]}
json_dump(data) ==
    [kind |-> "json",
     data |-> [k \in DOMAIN data |->
                 IF k = "next_id" THEN JInt(data[k])
                 ELSE [i \in 1..Len(data[k]) |-> dump_dict(data[k][i])]]]

\* json.load(file) of a file that parses to a dict
json_load(file) ==
    [k \in DOMAIN file.data |->
        IF k = "next_id" THEN file.data[k].v
        ELSE [i \in 1..Len(file.data[k]) |-> load_dict(file.data[k][i])]]

\* ---- persistence ----
SaveOutcomes == {"ok", "open_fails", "write_fails"}

\* save_tasks without the try/except: a failure leaves the method as an exception
save_tasks_uncaught(ts, nid, file, outcome) ==
    LET data == [k \in {"next_id", "tasks"} |->
                    IF k = "next_id" THEN nid
                    ELSE [i \in 1..Len(ts) |-> to_dict(ts[i])]]
    IN  CASE outcome = "ok" -> [file |-> json_dump(data), raised |-> FALSE]
          [] outcome = "open_fails" -> [file |-> file, raised |-> TRUE]
          [] outcome = "write_fails" -> [file |-> Garbage, raised |-> TRUE]

\* TaskManager.save_tasks: the file afterwards, and whether an exception leaves
\* the method.  open(filename, "w") may fail before the file is touched; a
\* failure while writing leaves a truncated file, which no longer parses.
save_tasks(ts, nid, file, outcome) ==
    LET data == [k \in {"next_id", "tasks"} |->
                    IF k = "next_id" THEN nid
                    ELSE [i \in 1..Len(ts) |-> to_dict(ts[i])]]
    IN  CASE outcome = "ok" -> [file |-> json_dump(data), raised |-> FALSE]
          [] outcome = "open_fails" -> [file |-> file, raised |-> FALSE]
          [] outcome = "write_fails" -> [file |-> Garbage, raised |-> FALSE]

\* except clauses that reset the collection and forget the counter
load_except_keeps_counter(ts, nid) == [tasks |-> <<>>, next_id |-> nid, raised |-> FALSE]

\* the except clauses of load_tasks: whatever was assigned so far is dropped
load_except(ts, nid) == [tasks |-> <<>>, next_id |-> 1, raised |-> FALSE]

\* load_tasks recounting next_id from the number of tasks loaded
load_tasks_recount(file, t) ==
    CASE file.kind = "json" /\ \A i \in 1..Len(Get(json_load(file), "tasks", <<>>)) :
                                    ~from_dict_raises(Get(json_load(file), "tasks", <<>>)[i]) ->
            LET recs == Get(json_load(file), "tasks", <<>>)
            IN  [tasks |-> [i \in 1..Len(recs) |-> from_dict(recs[i], t)],
                 next_id |-> Len(recs) + 1, raised |-> FALSE]
      [] OTHER -> [tasks |-> <<>>, next_id |-> 1, raised |-> FALSE]

\* TaskManager.load_tasks, from the state __init__ set (tasks = [], next_id = 1)
load_tasks(file, t) ==
    CASE file.kind = "absent" -> [tasks |-> <<>>, next_id |-> 1, raised |-> FALSE]
      [] file.kind \in {"unreadable", "garbage"} -> load_except(<<>>, 1)
      [] file.kind = "nondict" -> load_except(<<>>, 1)
      [] file.kind = "json" ->
            LET data == json_load(file)
                nid == Get(data, "next_id", 1)
                recs == Get(data, "tasks", <<>>)
            IN  IF \E i \in 1..Len(recs) : from_dict_raises(recs[i])
                THEN load_except(<<>>, nid)
                ELSE [tasks |-> [i \in 1..Len(recs) |-> from_dict(recs[i], t)],
                      next_id |-> nid, raised |-> FALSE]

\* ---- TaskManager ----
\* TaskManager._find_task: the position of the first task with that id, 0 for None
find_task(ts, task_id) ==
    LET hits == {i \in 1..Len(ts) : ts[i].id = task_id}
    IN  IF hits = {} THEN 0 ELSE CHOOSE i \in hits : \A j \in hits : i <= j

\* list.pop() in place of list.remove(task)
remove_last(ts, i) == SubSeq(ts, 1, Len(ts) - 1)

\* list.remove(task) of the task object at position i
remove(ts, i) == [j \in 1..(Len(ts) - 1) |-> IF j < i THEN ts[j] ELSE ts[j + 1]]

Written(outcome) == IF outcome = "ok" THEN "ok" ELSE "failed"

\* add_task taking the id from the length of the list instead of next_id
add_task_len_id(ts, nid, file, title, t, outcome) ==
    IF strip(title) = <<>>
    THEN [tasks |-> ts, next_id |-> nid, file |-> file,
          ret |-> "ValueError", task |-> <<>>, write |-> "none"]
    ELSE LET task == Task(strip(title), Len(ts) + 1, FALSE, None, None, t)
             ts2 == Append(ts, task)
             s == save_tasks(ts2, nid + 1, file, outcome)
         IN  [tasks |-> ts2, next_id |-> nid + 1, file |-> s.file,
              ret |-> IF s.raised THEN "raised" ELSE "task",
              task |-> <<task>>, write |-> Written(outcome)]

\* TaskManager.add_task
add_task(ts, nid, file, title, t, outcome) ==
    IF strip(title) = <<>>
    THEN [tasks |-> ts, next_id |-> nid, file |-> file,
          ret |-> "ValueError", task |-> <<>>, write |-> "none"]
    ELSE LET task == Task(strip(title), nid, FALSE, None, None, t)
             ts2 == Append(ts, task)
             s == save_tasks(ts2, nid + 1, file, outcome)
         IN  [tasks |-> ts2, next_id |-> nid + 1, file |-> s.file,
              ret |-> IF s.raised THEN "raised" ELSE "task",
              task |-> <<task>>, write |-> Written(outcome)]

\* complete_task that refuses a task that is already completed
complete_task_guarded(ts, nid, file, task_id, t, outcome) ==
    LET i == find_task(ts, task_id)
    IN  IF i # 0 /\ ~ts[i].completed
        THEN LET ts2 == [ts EXCEPT ![i] = complete(ts[i], t)]
                 s == save_tasks(ts2, nid, file, outcome)
             IN  [tasks |-> ts2, next_id |-> nid, file |-> s.file,
                  ret |-> IF s.raised THEN "raised" ELSE "True",
                  task |-> <<>>, write |-> Written(outcome)]
        ELSE [tasks |-> ts, next_id |-> nid, file |-> file,
              ret |-> "False", task |-> <<>>, write |-> "none"]

\* TaskManager.complete_task
complete_task(ts, nid, file, task_id, t, outcome) ==
    LET i == find_task(ts, task_id)
    IN  IF i # 0
        THEN LET ts2 == [ts EXCEPT ![i] = complete(ts[i], t)]
                 s == save_tasks(ts2, nid, file, outcome)
             IN  [tasks |-> ts2, next_id |-> nid, file |-> s.file,
                  ret |-> IF s.raised THEN "raised" ELSE "True",
                  task |-> <<>>, write |-> Written(outcome)]
        ELSE [tasks |-> ts, next_id |-> nid, file |-> file,
              ret |-> "False", task |-> <<>>, write |-> "none"]

\* uncomplete_task without the call of save_tasks
uncomplete_task_unsaved(ts, nid, file, task_id, outcome) ==
    LET i == find_task(ts, task_id)
    IN  IF i # 0
        THEN [tasks |-> [ts EXCEPT ![i] = uncomplete(ts[i])], next_id |-> nid,
              file |-> file, ret |-> "True", task |-> <<>>, write |-> "none"]
        ELSE [tasks |-> ts, next_id |-> nid, file |-> file,
              ret |-> "False", task |-> <<>>, write |-> "none"]

\* TaskManager.uncomplete_task
uncomplete_task(ts, nid, file, task_id, outcome) ==
    LET i == find_task(ts, task_id)
    IN  IF i # 0
        THEN LET ts2 == [ts EXCEPT ![i] = uncomplete(ts[i])]
                 s == save_tasks(ts2, nid, file, outcome)
             IN  [tasks |-> ts2, next_id |-> nid, file |-> s.file,
                  ret |-> IF s.raised THEN "raised" ELSE "True",
                  task |-> <<>>, write |-> Written(outcome)]
        ELSE [tasks |-> ts, next_id |-> nid, file |-> file,
              ret |-> "False", task |-> <<>>, write |-> "none"]

\* delete_task saving whether or not the task was found
delete_task_always_saves(ts, nid, file, task_id, outcome) ==
    LET i == find_task(ts, task_id)
        ts2 == IF i # 0 THEN remove(ts, i) ELSE ts
        s == save_tasks(ts2, nid, file, outcome)
    IN  [tasks |-> ts2, next_id |-> nid, file |-> s.file,
         ret |-> IF i # 0 THEN "True" ELSE "False",
         task |-> <<>>, write |-> Written(outcome)]

\* delete_task without the call of save_tasks
delete_task_unsaved(ts, nid, file, task_id, outcome) ==
    LET i == find_task(ts, task_id)
    IN  IF i # 0
        THEN [tasks |-> remove(ts, i), next_id |-> nid, file |-> file,
              ret |-> "True", task |-> <<>>, write |-> "none"]
        ELSE [tasks |-> ts, next_id |-> nid, file |-> file,
              ret |-> "False", task |-> <<>>, write |-> "none"]

\* TaskManager.delete_task
delete_task(ts, nid, file, task_id, outcome) ==
    LET i == find_task(ts, task_id)
    IN  IF i # 0
        THEN LET ts2 == remove(ts, i)
                 s == save_tasks(ts2, nid, file, outcome)
             IN  [tasks |-> ts2, next_id |-> nid, file |-> s.file,
                  ret |-> IF s.raised THEN "raised" ELSE "True",
                  task |-> <<>>, write |-> Written(outcome)]
        ELSE [tasks |-> ts, next_id |-> nid, file |-> file,
              ret |-> "False", task |-> <<>>, write |-> "none"]

\* the date of a clock reading: datetime.date()
date(t) == t \div TicksPerDay

DaysPerWeek == 7   \* timedelta(days=7)

\* get_statistics counting a completion exactly seven days old into the week
get_statistics_week_inclusive(ts, t) ==
    LET total == Len(ts)
        completed == Cardinality({i \in 1..Len(ts) : ts[i].completed})
        week_ago == t - DaysPerWeek * TicksPerDay
    IN  [total |-> total,
         completed |-> completed,
         pending |-> total - completed,
         completion_rate |-> IF total > 0 THEN [num |-> completed * 100, den |-> total]
                             ELSE [num |-> 0, den |-> 1],
         completed_today |->
             Cardinality({i \in 1..Len(ts) :
                 /\ ts[i].completed_at # None
                 /\ date(fromisoformat(ts[i].completed_at)) = date(t)}),
         completed_this_week |->
             Cardinality({i \in 1..Len(ts) :
                 /\ ts[i].completed_at # None
                 /\ fromisoformat(ts[i].completed_at) >= week_ago})]

\* get_statistics giving the total as the number of pending tasks
get_statistics_pending_total(ts, t) ==
    LET total == Len(ts)
        completed == Cardinality({i \in 1..Len(ts) : ts[i].completed})
        week_ago == t - DaysPerWeek * TicksPerDay
    IN  [total |-> total,
         completed |-> completed,
         pending |-> total,
         completion_rate |-> IF total > 0 THEN [num |-> completed * 100, den |-> total]
                             ELSE [num |-> 0, den |-> 1],
         completed_today |->
             Cardinality({i \in 1..Len(ts) :
                 /\ ts[i].completed_at # None
                 /\ date(fromisoformat(ts[i].completed_at)) = date(t)}),
         completed_this_week |->
             Cardinality({i \in 1..Len(ts) :
                 /\ ts[i].completed_at # None
                 /\ fromisoformat(ts[i].completed_at) > week_ago})]

\* TaskManager.get_statistics at clock reading t; the float completion_rate
\* completed / total * 100 is kept as the fraction num / den
get_statistics(ts, t) ==
    LET total == Len(ts)
        completed == Cardinality({i \in 1..Len(ts) : ts[i].completed})
        pending == total - completed
        week_ago == t - DaysPerWeek * TicksPerDay
    IN  [total |-> total,
         completed |-> completed,
         pending |-> pending,
         completion_rate |-> IF total > 0 THEN [num |-> completed * 100, den |-> total]
                             ELSE [num |-> 0, den |-> 1],
         completed_today |->
             Cardinality({i \in 1..Len(ts) :
                 /\ ts[i].completed_at # None
                 /\ date(fromisoformat(ts[i].completed_at)) = date(t)}),
         completed_this_week |->
             Cardinality({i \in 1..Len(ts) :
                 /\ ts[i].completed_at # None
                 /\ fromisoformat(ts[i].completed_at) > week_ago})]

\* the values of the filter_completed argument of show_tasks
Filters == {"None", "True", "False"}

\* show_tasks testing `if filter_completed:` instead of `is not None`
show_tasks_truthy_filter(ts, filter_completed) ==
    IF ts = <<>> THEN <<>>
    ELSE IF filter_completed = "True"
         THEN SelectSeq(ts, LAMBDA x : x.completed = (filter_completed = "True"))
         ELSE ts

\* TaskManager.show_tasks: the tasks it prints, in the order it prints them (it
\* prints a message instead when there is none to print)
show_tasks(ts, filter_completed) ==
    IF ts = <<>> THEN <<>>
    ELSE IF filter_completed # "None"
         THEN SelectSeq(ts, LAMBDA x : x.completed = (filter_completed = "True"))
         ELSE ts

\* ---- the caller ----
\* titles the caller may type
Titles == UNION {[1..n -> Chars] : n \in 0..MaxTitleLen}
\* ids the caller may name
TaskIds == 1..(MaxId + 1)

\* the record of the most recent call: its arguments, what it returned, whether it
\* wrote the store, whether it directly follows a successful complete_task of
\* the same id, and what it showed (out, for the calls that only read)
Call(op, id, title, r) ==
    [op |-> op,
     id |-> IF r.ret = "task" THEN r.task[1].id ELSE id,
     title |-> title,
     ret |-> r.ret,
     write |-> r.write,
     follows |-> last.op = "complete" /\ last.ret = "True" /\ last.id = id,
     filter |-> "None",
     out |-> <<>>]

Constructed(r) ==
    [op |-> "construct", id |-> NoId, title |-> <<>>,
     ret |-> IF r.raised THEN "raised" ELSE "manager",
     write |-> "none", follows |-> FALSE, filter |-> "None", out |-> <<>>]

\* the record of a call that only reads the collection
Read(op, filter, out) ==
    [op |-> op, id |-> NoId, title |-> <<>>, ret |-> "None", write |-> "none",
     follows |-> FALSE, filter |-> filter, out |-> out]

\* the ids whose delete_task returned True: all of them, and those that the
\* manager in use deleted itself
NoneDeleted == [all |-> {}, here |-> {}]

\* the effect of one call on the manager, the store and the record of calls
Effect(op, id, title, r) ==
    /\ tasks' = r.tasks
    /\ next_id' = r.next_id
    /\ store' = r.file
    /\ last' = Call(op, id, title, r)
    /\ failures' = IF r.write = "failed" THEN failures + 1 ELSE failures
    /\ returned' = IF r.ret = "task" THEN Append(returned, r.task[1].id) ELSE returned
    /\ issued' = IF r.ret = "task" THEN issued \cup {r.task[1].id} ELSE issued
    /\ deleted' = IF op = "delete" /\ r.ret = "True"
                  THEN [all |-> deleted.all \cup {id}, here |-> deleted.here \cup {id}]
                  ELSE deleted
    /\ UNCHANGED now

MayFail(outcome) == outcome # "ok" => failures < MaxFailures

\* TaskManager.__init__: tasks = [], next_id = 1, then load_tasks()
TaskManager(file, t) == load_tasks(file, t)

Init ==
    /\ store = Absent
    /\ now = 0
    /\ tasks = TaskManager(store, now).tasks
    /\ next_id = TaskManager(store, now).next_id
    /\ last = Constructed(TaskManager(store, now))
    /\ returned = <<>>
    /\ issued = {}
    /\ failures = 0
    /\ deleted = NoneDeleted

Add ==
    /\ next_id <= MaxId
    /\ \E title \in Titles, outcome \in SaveOutcomes :
          /\ MayFail(outcome)
          /\ Effect("add", NoId, title, add_task(tasks, next_id, store, title, now, outcome))

Complete ==
    \E id \in TaskIds, outcome \in SaveOutcomes :
        /\ MayFail(outcome)
        /\ Effect("complete", id, <<>>,
                  complete_task(tasks, next_id, store, id, now, outcome))

Uncomplete ==
    \E id \in TaskIds, outcome \in SaveOutcomes :
        /\ MayFail(outcome)
        /\ Effect("uncomplete", id, <<>>,
                  uncomplete_task(tasks, next_id, store, id, outcome))

Delete ==
    \E id \in TaskIds, outcome \in SaveOutcomes :
        /\ MayFail(outcome)
        /\ Effect("delete", id, <<>>, delete_task(tasks, next_id, store, id, outcome))

\* the process ends and a new one constructs its manager on the same file
Restart ==
    /\ tasks' = TaskManager(store, now).tasks
    /\ next_id' = TaskManager(store, now).next_id
    /\ last' = Constructed(TaskManager(store, now))
    /\ returned' = <<>>
    /\ deleted' = [deleted EXCEPT !.here = {}]
    /\ UNCHANGED <<store, now, issued, failures>>

\* time passes between calls
Tick ==
    /\ now < MaxTime
    /\ now' = now + 1
    /\ UNCHANGED <<tasks, next_id, store, last, returned, issued, failures, deleted>>

Next == Add \/ Complete \/ Uncomplete \/ Delete \/ Restart \/ Tick

\* a manager used from an absent store, across restarts of the process
Spec == Init /\ [][Next]_vars

\* ---- the calls that only read ----
Statistics ==
    /\ last' = Read("statistics", "None", <<get_statistics(tasks, now)>>)
    /\ UNCHANGED <<tasks, next_id, store, now, returned, issued, failures, deleted>>

Show ==
    \E filter \in Filters :
        /\ last' = Read("show", filter, show_tasks(tasks, filter))
        /\ UNCHANGED <<tasks, next_id, store, now, returned, issued, failures, deleted>>

NextRead == Add \/ Complete \/ Uncomplete \/ Delete \/ Restart \/ Tick \/ Statistics \/ Show

\* the same manager, with a caller that also looks at the collection
SpecRead == Init /\ [][NextRead]_vars

\* ---- a clock that runs for more than a week ----
\* a week passes between calls on the first day, and one more day a week later
Sleep ==
    \E d \in {DaysPerWeek, 1} :
        /\ date(now) = (IF d = 1 THEN DaysPerWeek ELSE 0)
        /\ now' = now + d * TicksPerDay
        /\ UNCHANGED <<tasks, next_id, store, last, returned, issued, failures, deleted>>

\* the runs over these days in which every write of the store succeeds
NextWeek ==
    /\ Add \/ Complete \/ Uncomplete \/ Delete \/ Restart \/ Tick \/ Sleep \/ Statistics
    /\ failures' = failures

SpecWeek == Init /\ [][NextWeek]_vars

\* ---- construction on a file that some other hand wrote ----
MaxFileTasks == 2   \* records in such a file

FileKeys == {"id", "title", "completed", "created_at", "completed_at"}

Restrict(d, keys) == [k \in keys |-> d[k]]

\* the JSON record of task i, written at time 0, with only the given keys, and
\* with null for created_at when null_created; the tasks at odd positions are
\* completed ones
FileRecord(i, keys, null_created) ==
    LET c == (i % 2 = 1)
        d == dump_dict(to_dict(Task(<<"a">>, i, c, isoformat(0),
                                    IF c THEN isoformat(0) ELSE None, 0)))
    IN  Restrict(IF null_created THEN [d EXCEPT !["created_at"] = JNull] ELSE d, keys)

FileTaskLists ==
    UNION {{[i \in 1..n |-> FileRecord(i, f[i][1], f[i][2])] :
                f \in [1..n -> (SUBSET FileKeys) \X BOOLEAN]} :
                n \in 0..MaxFileTasks}

FileDicts ==
    {[k \in {"next_id", "tasks"} |-> IF k = "next_id" THEN JInt(Len(l) + 1) ELSE l] :
        l \in FileTaskLists}
    \cup {[k \in {"tasks"} |-> l] : l \in FileTaskLists}
    \cup {[k \in {"next_id"} |-> JInt(MaxFileTasks + 1)], EmptyDict}

Files ==
    {Absent, Unreadable, Garbage, NonDict} \cup {[kind |-> "json", data |-> d] : d \in FileDicts}

\* the file is there and the program has not been started yet: the manager is
\* the one of the first two lines of __init__, and the first Restart is its
\* construction
InitLoad ==
    /\ store \in Files
    /\ now = 0
    /\ tasks = <<>>
    /\ next_id = 1
    /\ last = Read("none", "None", <<>>)
    /\ returned = <<>>
    /\ issued = {}
    /\ failures = 0
    /\ deleted = NoneDeleted

NextLoad == Restart \/ Tick

SpecLoad == InitLoad /\ [][NextLoad]_vars

\* ---- properties ----
\* a step that is a call of op (Tick alone changes the clock; a call that changes
\* nothing at all is a stuttering step)
IsCall(op) == now' = now /\ last'.op = op

Ids(ts) == {ts[i].id : i \in 1..Len(ts)}

\* C1: the ids returned by the successive successful add calls of one manager are
\* strictly increasing, and no two tasks of the collection share an id, whatever
\* deletes came between.
C1_IdsIncreasingAndUnique ==
    /\ \A i, j \in 1..Len(returned) : i < j => returned[i] < returned[j]
    /\ \A i, j \in 1..Len(tasks) : i # j => tasks[i].id # tasks[j].id

\* an add, a delete of that task, and another add
C1_Witness ==
    /\ last.op = "add" /\ last.ret = "task"
    /\ Len(returned) = 2
    /\ Len(tasks) = 1
    /\ tasks[1].id = returned[2]

C3_CompletedAtIffCompleted ==
    \A i \in 1..Len(tasks) : (tasks[i].completed_at # None) <=> tasks[i].completed

\* a task uncompleted beside a completed one
C3_Witness ==
    /\ last.op = "uncomplete" /\ last.ret = "True"
    /\ \E i \in 1..Len(tasks) : tasks[i].completed /\ tasks[i].completed_at # None
    /\ \E i \in 1..Len(tasks) : ~tasks[i].completed /\ tasks[i].completed_at = None

AllWhitespace(s) == \A i \in 1..Len(s) : s[i] \in Whitespace

\* out is raw without its surrounding whitespace
IsTrimOf(out, raw) ==
    /\ out # <<>>
    /\ out[1] \notin Whitespace
    /\ out[Len(out)] \notin Whitespace
    /\ \E a \in 0..Len(raw) :
          /\ a + Len(out) <= Len(raw)
          /\ AllWhitespace(SubSeq(raw, 1, a))
          /\ SubSeq(raw, a + 1, a + Len(out)) = out
          /\ AllWhitespace(SubSeq(raw, a + Len(out) + 1, Len(raw)))

\* C4: add with a title that is empty after trimming fails with the validation
\* error and changes neither the collection, next_id nor the store; add with any
\* other title succeeds and stores the title trimmed.
C4_AddValidatesAndTrims ==
    [][IsCall("add") =>
          IF AllWhitespace(last'.title)
          THEN /\ last'.ret = "ValueError"
               /\ tasks' = tasks /\ next_id' = next_id /\ store' = store
          ELSE /\ last'.ret = "task"
               /\ Len(tasks') = Len(tasks) + 1
               /\ SubSeq(tasks', 1, Len(tasks)) = tasks
               /\ tasks'[Len(tasks')].id = last'.id
               /\ IsTrimOf(tasks'[Len(tasks')].title, last'.title)]_vars

\* add(" a") stored "a"
C4_Witness ==
    /\ last.op = "add" /\ last.ret = "task"
    /\ last.title = <<" ", "a">>
    /\ tasks[Len(tasks)].title = <<"a">>

\* C5: complete, uncomplete and delete of an id no task has return false and
\* leave the collection, next_id and the store as they were, writing nothing.
C5_NotFoundChangesNothing ==
    [][((IsCall("complete") \/ IsCall("uncomplete") \/ IsCall("delete"))
         /\ last'.id \notin Ids(tasks)) =>
          /\ last'.ret = "False"
          /\ last'.write = "none"
          /\ tasks' = tasks /\ next_id' = next_id /\ store' = store]_vars

\* a delete of an id that was deleted before, with another task still there
C5_Witness ==
    /\ last.op = "delete" /\ last.ret = "False"
    /\ last.id \in issued
    /\ Len(tasks) > 0

\* C6: persisting the manager's state and constructing a new manager on the
\* store gives the same tasks, field by field and in the same order, and the same
\* next_id.
C6_SaveThenLoadRoundTrip ==
    LET loaded == TaskManager(save_tasks(tasks, next_id, store, "ok").file, now)
    IN  /\ loaded.next_id = next_id
        /\ Len(loaded.tasks) = Len(tasks)
        /\ \A i \in 1..Len(tasks) :
              /\ loaded.tasks[i].id = tasks[i].id
              /\ loaded.tasks[i].title = tasks[i].title
              /\ loaded.tasks[i].completed = tasks[i].completed
              /\ loaded.tasks[i].created_at = tasks[i].created_at
              /\ loaded.tasks[i].completed_at = tasks[i].completed_at

\* a manager restarted, later than its tasks were created, on a store that holds a
\* completed and a pending task
C6_Witness ==
    /\ last.op = "construct"
    /\ failures = 0
    /\ Len(tasks) = 2
    /\ tasks[1].completed /\ ~tasks[2].completed
    /\ fromisoformat(tasks[1].created_at) < now

\* the store decodes to the manager's state (an absent store: no tasks, next_id 1)
StoreMatches ==
    CASE store.kind = "absent" -> tasks = <<>> /\ next_id = 1
      [] store.kind = "json" ->
            /\ TaskManager(store, now).tasks = tasks
            /\ TaskManager(store, now).next_id = next_id
      [] OTHER -> FALSE

C8_FailedWriteIsAbsorbed ==
    [][/\ (now' = now /\ last'.write = "failed") =>
            CASE last'.op = "add" ->
                    /\ last'.ret = "task"
                    /\ next_id' = next_id + 1
                    /\ Len(tasks') = Len(tasks) + 1
                    /\ tasks'[Len(tasks')].id = last'.id
              [] last'.op = "complete" ->
                    /\ last'.ret = "True"
                    /\ \E i \in 1..Len(tasks') :
                          tasks'[i].id = last'.id /\ tasks'[i].completed
              [] last'.op = "uncomplete" ->
                    /\ last'.ret = "True"
                    /\ \E i \in 1..Len(tasks') :
                          tasks'[i].id = last'.id /\ ~tasks'[i].completed
              [] last'.op = "delete" ->
                    /\ last'.ret = "True"
                    /\ Len(tasks') = Len(tasks) - 1
                    /\ last'.id \notin Ids(tasks')
       /\ ((IsCall("complete") \/ IsCall("uncomplete") \/ IsCall("delete"))
            /\ last'.id \in Ids(tasks)) => last'.ret = "True"]_vars

\* an add whose write failed: the task is in the collection, the store was never
\* written
C8_Witness ==
    /\ last.op = "add" /\ last.write = "failed" /\ last.ret = "task"
    /\ Len(tasks) = 1
    /\ store.kind # "json"

FileTasks(file) == IF "tasks" \in DOMAIN file.data THEN file.data["tasks"] ELSE <<>>

\* the file parses to a dict all of whose records can be rebuilt into a Task
Loadable(file) ==
    /\ file.kind = "json"
    /\ \A i \in 1..Len(FileTasks(file)) : "title" \in DOMAIN FileTasks(file)[i]

\* C9: construction ends with everything the file holds restored, or, when the
\* file is absent, unreadable, unparseable or holds a record that cannot be
\* rebuilt, with no tasks and next_id = 1; never with part of the file restored,
\* and never with an exception.
C9_LoadIsAllOrNothing ==
    last.op = "construct" =>
        /\ last.ret = "manager"
        /\ IF Loadable(store)
           THEN /\ next_id = IF "next_id" \in DOMAIN store.data
                             THEN store.data["next_id"].v ELSE 1
                /\ Len(tasks) = Len(FileTasks(store))
                /\ \A i \in 1..Len(tasks) :
                      LET rec == FileTasks(store)[i]
                      IN  /\ tasks[i].title = rec["title"].v
                          /\ "id" \in DOMAIN rec => tasks[i].id = rec["id"].v
                          /\ "completed" \in DOMAIN rec =>
                                tasks[i].completed = rec["completed"].v
                          /\ "created_at" \in DOMAIN rec /\ rec["created_at"].t # "null" =>
                                tasks[i].created_at = rec["created_at"].v
                          /\ "completed_at" \in DOMAIN rec =>
                                tasks[i].completed_at =
                                    IF rec["completed_at"].t = "null" THEN None
                                    ELSE rec["completed_at"].v
           ELSE tasks = <<>> /\ next_id = 1

\* a file whose next_id and first record are fine and whose second record has no
\* title: nothing of it is restored
C9_Witness ==
    /\ last.op = "construct"
    /\ store.kind = "json"
    /\ "next_id" \in DOMAIN store.data
    /\ store.data["next_id"].v = 3
    /\ Len(FileTasks(store)) = 2
    /\ "title" \in DOMAIN FileTasks(store)[1]
    /\ "title" \notin DOMAIN FileTasks(store)[2]
    /\ tasks = <<>>
    /\ next_id = 1

SameIdentity(i) ==
    /\ tasks'[i].id = tasks[i].id
    /\ tasks'[i].title = tasks[i].title
    /\ tasks'[i].created_at = tasks[i].created_at

\* C10: complete(id) followed by uncomplete(id), for an id in the collection and
\* whatever the task's state, both return true and leave the task pending with
\* completed_at absent and with its id, title and created_at as before.
C10_CompleteThenUncomplete ==
    [][/\ (IsCall("complete") /\ last'.id \in Ids(tasks)) =>
            /\ last'.ret = "True"
            /\ Len(tasks') = Len(tasks)
            /\ \A i \in 1..Len(tasks) : SameIdentity(i)
       /\ (IsCall("uncomplete") /\ last'.follows) =>
            /\ last'.ret = "True"
            /\ Len(tasks') = Len(tasks)
            /\ \A i \in 1..Len(tasks) :
                  /\ SameIdentity(i)
                  /\ tasks[i].id = last'.id =>
                        ~tasks'[i].completed /\ tasks'[i].completed_at = None]_vars

\* an uncomplete right after the complete of the same task, later than the task
\* was created
C10_Witness ==
    /\ last.op = "uncomplete" /\ last.follows /\ last.ret = "True"
    /\ \E i \in 1..Len(tasks) :
          /\ tasks[i].id = last.id
          /\ ~tasks[i].completed
          /\ fromisoformat(tasks[i].created_at) < now

\* C11: get_statistics returns total = the number of tasks, completed = the number
\* of tasks whose completed flag is true, pending = total - completed and
\* completion_rate = completed / total * 100 when total > 0 and 0 when there is no
\* task; the call changes neither the collection, next_id nor the store.
C11_StatisticsCountsAndReadsOnly ==
    [][IsCall("statistics") =>
        LET st == last'.out[1]
            done == {i \in 1..Len(tasks) : tasks[i].completed}
        IN  /\ st.total = Len(tasks)
            /\ st.completed = Cardinality(done)
            /\ st.pending = Len(tasks) - Cardinality(done)
            /\ Len(tasks) > 0 =>
                   st.completion_rate.num * Len(tasks)
                       = Cardinality(done) * 100 * st.completion_rate.den
            /\ Len(tasks) = 0 => st.completion_rate.num = 0
            /\ st.completion_rate.den > 0
            /\ Len(tasks) = 2 /\ Cardinality(done) = 1 =>
                   st.completion_rate.num = 50 * st.completion_rate.den
            /\ UNCHANGED <<tasks, next_id, store>>]_vars

\* statistics of two tasks, one of them completed: the rate is 50
C11_Witness ==
    /\ last.op = "statistics"
    /\ Len(tasks) = 2
    /\ last.out[1].total = 2
    /\ last.out[1].completed = 1
    /\ last.out[1].pending = 1
    /\ last.out[1].completion_rate.num = 50 * last.out[1].completion_rate.den

\* the positions of ts whose task passes the filter
Matching(ts, filter) ==
    {i \in 1..Len(ts) : filter = "None" \/ ts[i].completed = (filter = "True")}

\* the k-th smallest member of a set of positions
Kth(idx, k) == CHOOSE i \in idx : Cardinality({j \in idx : j < i}) = k - 1

\* C12: the collection is kept in the order in which the tasks were added
\* (complete, uncomplete and delete never reorder the remaining tasks), show_tasks
\* without filter shows all of it in that order, and show_tasks with a filter shows,
\* in the same order, exactly the tasks whose completed flag equals the filter:
\* nothing, and no error, when none matches.
C12_ShowKeepsOrderAndFilters ==
    /\ \A i, j \in 1..Len(tasks) : i < j => tasks[i].id < tasks[j].id
    /\ last.op = "show" =>
          LET idx == Matching(tasks, last.filter)
          IN  /\ last.ret = "None"
              /\ Len(last.out) = Cardinality(idx)
              /\ \A k \in 1..Len(last.out) : last.out[k] = tasks[Kth(idx, k)]
              /\ last.filter = "None" => last.out = tasks

\* two tasks, the first completed, shown with the filter for pending ones
C12_Witness ==
    /\ last.op = "show"
    /\ last.filter = "False"
    /\ Len(tasks) = 2
    /\ tasks[1].completed
    /\ last.out = <<tasks[2]>>

\* the record holds a value for key k
Holds(rec, k) == k \in DOMAIN rec /\ rec[k].t # "null"

\* what construction restored from the i-th record of a loadable file, apart from
\* created_at: the fields the record has as stored, completed = false and
\* completed_at = None for the ones it lacks
RestoredButCreatedAt(i) ==
    LET rec == FileTasks(store)[i]
    IN  /\ tasks[i].title = rec["title"].v
        /\ tasks[i].id = IF Holds(rec, "id") THEN rec["id"].v ELSE NoId
        /\ tasks[i].completed =
               IF "completed" \in DOMAIN rec THEN rec["completed"].v ELSE FALSE
        /\ tasks[i].completed_at =
               IF Holds(rec, "completed_at") THEN rec["completed_at"].v ELSE None

\* the state right after a construction that restored a parseable file, as C13
\* has it: when construction restores a parseable file, a record without
\* completed is restored with completed = false, one without completed_at with
\* completed_at = None, one without created_at with created_at = None, and a field
\* the record has is restored unchanged.
RestoredWithCreatedAtNone ==
    last.op = "construct" /\ Loadable(store) =>
        /\ Len(tasks) = Len(FileTasks(store))
        /\ \A i \in 1..Len(tasks) :
              /\ RestoredButCreatedAt(i)
              /\ tasks[i].created_at =
                     IF "created_at" \in DOMAIN FileTasks(store)[i]
                     THEN load_value("created_at", FileTasks(store)[i]["created_at"])
                     ELSE None

\* C13 as stated: every construction that restores a parseable file restores a
\* record without created_at with created_at = None (and the other fields as above).
C13_MissingFieldsDefaultToAbsent ==
    [][IsCall("construct") => RestoredWithCreatedAtNone']_vars

\* the state right after a construction that restored a parseable file
RestoredWithCreatedAtNow ==
    last.op = "construct" /\ Loadable(store) =>
        /\ Len(tasks) = Len(FileTasks(store))
        /\ \A i \in 1..Len(tasks) :
              /\ RestoredButCreatedAt(i)
              /\ tasks[i].created_at =
                     IF Holds(FileTasks(store)[i], "created_at")
                     THEN FileTasks(store)[i]["created_at"].v
                     ELSE isoformat(now)

\* C13: when construction restores a parseable file, a record without completed is
\* restored with completed = false and one without completed_at with
\* completed_at = None; a record without created_at, or with null for it, is
\* restored with created_at = the time of the construction; every other field the
\* record has is restored unchanged.
C13_MissingCreatedAtIsNow ==
    [][IsCall("construct") => RestoredWithCreatedAtNow']_vars

\* a file written at time 0 and read at time 1, whose first record has only a
\* title and whose second record has everything
C13_Witness ==
    /\ last.op = "construct"
    /\ Loadable(store)
    /\ now = 1
    /\ Len(tasks) = 2
    /\ DOMAIN FileTasks(store)[1] = {"title"}
    /\ DOMAIN FileTasks(store)[2] = FileKeys
    /\ tasks[1].completed = FALSE
    /\ tasks[1].completed_at = None
    /\ tasks[1].created_at = isoformat(1)
    /\ tasks[2].created_at = isoformat(0)

\* C14: every task has a created_at from the add that created it until it is
\* deleted, the add sets it to the time of the call, and no step changes it: not a
\* complete or uncomplete of the task, not a call on another task, not a save and
\* not a restart of the process.
C14_CreatedAtKept ==
    [][/\ \A j \in 1..Len(tasks') : tasks'[j].created_at # None
       /\ \A i \in 1..Len(tasks), j \in 1..Len(tasks') :
             tasks[i].id = tasks'[j].id => tasks'[j].created_at = tasks[i].created_at
       /\ IsCall("add") /\ last'.ret = "task" =>
             tasks'[Len(tasks')].created_at = isoformat(now)]_vars

\* a task added at time 0 and completed at time 1, after a restart
C14_Witness ==
    /\ last.op = "construct"
    /\ now = 1
    /\ \E i \in 1..Len(tasks) :
          /\ tasks[i].created_at = isoformat(0)
          /\ tasks[i].completed_at = isoformat(1)

\* C15: complete_task and uncomplete_task have no guard on the state of the task.
\* complete_task of a task that is already completed returns True, keeps
\* completed = true and only replaces completed_at with the time of the call;
\* uncomplete_task of a task that is pending returns True and leaves it pending
\* with completed_at = None. So the flag after two completes is the flag after one
\* (true), and the flag after two uncompletes is the flag after one (false).
C15_NoGuardOnState ==
    [][\A i \in 1..Len(tasks) :
          /\ IsCall("complete") /\ tasks[i].id = last'.id =>
                /\ last'.ret = "True"
                /\ Len(tasks') = Len(tasks)
                /\ tasks'[i].completed
                /\ tasks[i].completed =>
                      tasks'[i] = [tasks[i] EXCEPT !.completed_at = isoformat(now)]
          /\ IsCall("uncomplete") /\ tasks[i].id = last'.id =>
                /\ last'.ret = "True"
                /\ Len(tasks') = Len(tasks)
                /\ ~tasks'[i].completed
                /\ ~tasks[i].completed =>
                      tasks'[i] = tasks[i] /\ tasks'[i].completed_at = None]_vars

\* a task created at time 0 and completed twice in a row, the second time at time 1
C15_Witness ==
    /\ last.op = "complete"
    /\ last.follows
    /\ last.ret = "True"
    /\ now = 1
    /\ \E i \in 1..Len(tasks) :
          /\ tasks[i].id = last.id
          /\ tasks[i].completed
          /\ tasks[i].created_at = isoformat(0)
          /\ tasks[i].completed_at = isoformat(1)

\* C16: a complete_task, uncomplete_task or delete_task that returns True changes
\* only the task of that id. delete_task removes that one task and nothing else;
\* complete_task and uncomplete_task change nothing but the completed and
\* completed_at of that task. Every other task keeps its id, title, completed,
\* created_at and completed_at and its place among the others, and next_id stays.
C16_OnlyTheNamedTaskChanges ==
    [][/\ (IsCall("complete") \/ IsCall("uncomplete")) /\ last'.ret = "True" =>
             /\ next_id' = next_id
             /\ Len(tasks') = Len(tasks)
             /\ \A i \in 1..Len(tasks) :
                   IF tasks[i].id = last'.id THEN SameIdentity(i)
                   ELSE tasks'[i] = tasks[i]
       /\ IsCall("delete") /\ last'.ret = "True" =>
             /\ next_id' = next_id
             /\ Len(tasks') = Len(tasks) - 1
             /\ \E k \in 1..Len(tasks) :
                   /\ tasks[k].id = last'.id
                   /\ \A i \in 1..Len(tasks') :
                         tasks'[i] = IF i < k THEN tasks[i] ELSE tasks[i + 1]]_vars

\* the first of two tasks was deleted with success: the second is what is left
C16_Witness ==
    /\ last.op = "delete"
    /\ last.ret = "True"
    /\ last.id = 1
    /\ Len(tasks) = 1
    /\ tasks[1].id = 2
    /\ next_id = 3

\* in the step, the ids of gone are gone: no task has one, a complete_task,
\* uncomplete_task or delete_task of one returns False, and no add_task returns one
StaysGone(gone, gone_after) ==
    /\ \A id \in gone_after : id \notin Ids(tasks')
    /\ (IsCall("complete") \/ IsCall("uncomplete") \/ IsCall("delete"))
          /\ last'.id \in gone => last'.ret = "False"
    /\ IsCall("add") /\ last'.ret = "task" => last'.id \notin gone

Gone == deleted.here \cup (IF failures = 0 THEN deleted.all ELSE {})

StampedToday ==
    {i \in 1..Len(tasks) : tasks[i].completed_at # None
                             /\ tasks[i].completed_at[1] = now \div TicksPerDay}

\* the tasks with a completed_at strictly later than now minus seven days
StampedThisWeek ==
    {i \in 1..Len(tasks) :
        tasks[i].completed_at # None
        /\ tasks[i].completed_at[1] * TicksPerDay + tasks[i].completed_at[2]
               > now - 7 * TicksPerDay}

====
